---- MODULE Spec2Model ----
(***************************************************************************)
(* Sentiment-analysis API (src/main.py): a FastAPI application that loads  *)
(* one Hugging Face text-classification pipeline at import time and serves *)
(* GET / (health check) and POST /predict (inference).                     *)
(*                                                                         *)
(* The module models the import-time start-up (lines 12-24), the request   *)
(* validation FastAPI performs from the TextInput annotation (lines 34-40),*)
(* the two handlers (lines 28-30 and 39-51) and the instrumentation        *)
(* middleware attached at line 24.  Sync handlers run in FastAPI's thread  *)
(* pool, so several requests are in flight at once and their steps         *)
(* interleave.                                                             *)
(*                                                                         *)
(* The pipeline is third-party code.  An instance is a deterministic map   *)
(* from text to an outcome: it raises, or it returns a list whose elements *)
(* are dictionaries.  Which map was loaded is chosen at start-up.          *)
(***************************************************************************)
EXTENDS Integers, Sequences, FiniteSets, TLC

\* Number of request slots (requests handled during one run of the process).
MaxRequests == 2

\* Scores are floats in [0, 1]; a score s stands for s / ScoreUnit.
ScoreUnit == 4

Requests == 1..MaxRequests

\* Request texts: the empty string and the text of test_main.py.
Texts == {"", "What a lovely day!"}

\* Labels of distilbert-base-uncased-finetuned-sst-2-english.
Labels == {"POSITIVE", "NEGATIVE"}

Absent == "<absent>"

(***************************************************************************)
(* JSON values of a request body's "text" member.                          *)
(***************************************************************************)
JStr(s) == [type |-> "string", val |-> s]
JNum == [type |-> "number", val |-> "123"]
JNull == [type |-> "null", val |-> Absent]

NoBody == [json |-> "none", keys |-> {}, text |-> JNull]

\* Bodies a client may POST to /predict: {"text": t}, {"txt": "hello"},
\* {"text": 123} and a body that is not a JSON object.
PredictBodies ==
    { [json |-> "object", keys |-> {"text"}, text |-> JStr(t)] : t \in Texts }
    \cup { [json |-> "object", keys |-> {"txt"}, text |-> JNull],
           [json |-> "object", keys |-> {"text"}, text |-> JNum],
           [json |-> "array", keys |-> {}, text |-> JNull] }

(***************************************************************************)
(* Elements of the list the pipeline returns.                              *)
(***************************************************************************)
NoElem == [keys |-> {}, label |-> Absent, score |-> 0]
ElemPositive == [keys |-> {"label", "score"}, label |-> "POSITIVE", score |-> ScoreUnit - 1]
ElemNegative == [keys |-> {"label", "score"}, label |-> "NEGATIVE", score |-> 1]
\* A dictionary without the label and score keys.
ElemUnshaped == [keys |-> {"foo"}, label |-> Absent, score |-> 0]

\* What one call of the pipeline can do.
Raised == [raised |-> TRUE, value |-> <<>>]
Returned(list) == [raised |-> FALSE, value |-> list]
Outcomes ==
    { Raised,
      Returned(<<>>),
      Returned(<<ElemPositive>>),
      Returned(<<ElemNegative, ElemPositive>>),
      Returned(<<ElemUnshaped>>) }

\* The pipeline instances pipeline(...) may build.
Instances == { [loaded |-> TRUE, classify |-> f] : f \in [Texts -> Outcomes] }
\* The name sentiment_pipeline before it is bound.
NoModel == [loaded |-> FALSE, classify |-> [t \in Texts |-> Raised]]

\* sentiment_pipeline(text)
Classify(model, text) == IF model.loaded THEN model.classify[text] ELSE Raised

(***************************************************************************)
(* Responses.                                                              *)
(***************************************************************************)
NoDetail == [loc |-> Absent, type |-> Absent]
NoResponse ==
    [status |-> 0, keys |-> {}, message |-> Absent, input_text |-> Absent,
     prediction |-> NoElem, detail |-> NoDetail]

\* return {"message": "Sentiment Analysis API is running!"}
RootPayload ==
    [NoResponse EXCEPT !.status = 200, !.keys = {"message"},
                       !.message = "Sentiment Analysis API is running!"]

\* FastAPI's answer to a body that fails validation.
ValidationError(detail) ==
    [NoResponse EXCEPT !.status = 422, !.keys = {"detail"}, !.detail = detail]

\* The answer to an exception that leaves the handler.
InternalServerError == [NoResponse EXCEPT !.status = 500]

\* result[0]
FirstLast(result) == result[Len(result)]
First(result) == result[1]

Lower(text) == IF text = "What a lovely day!" THEN "what a lovely day!" ELSE text

\* return {"input_text": text, "prediction": result[0]}
EnvelopeLowered(text, result) ==
    [NoResponse EXCEPT !.status = 200, !.keys = {"input_text", "prediction"},
                       !.input_text = Lower(text), !.prediction = First(result)]
Envelope(text, result) ==
    [NoResponse EXCEPT !.status = 200, !.keys = {"input_text", "prediction"},
                       !.input_text = text, !.prediction = First(result)]

(***************************************************************************)
(* class TextInput(BaseModel): text: str                                   *)
(* The body must be a JSON object with a member "text" that is a string;   *)
(* the string is taken as it is, the empty string included.                *)
(***************************************************************************)
Accepted(text) == [ok |-> TRUE, text |-> text, detail |-> NoDetail]
Rejected(loc, type) == [ok |-> FALSE, text |-> Absent, detail |-> [loc |-> loc, type |-> type]]

\* text: str = ""
TextInputDefaulted(body) ==
    IF body.json # "object" THEN Rejected("body", "model_attributes_type")
    ELSE IF "text" \notin body.keys THEN Accepted("")
    ELSE IF body.text.type # "string" THEN Rejected("text", "string_type")
    ELSE Accepted(body.text.val)

\* text: str = Field(min_length=1)
TextInputNonEmpty(body) ==
    IF body.json # "object" THEN Rejected("body", "model_attributes_type")
    ELSE IF "text" \notin body.keys THEN Rejected("text", "missing")
    ELSE IF body.text.type # "string" THEN Rejected("text", "string_type")
    ELSE IF body.text.val = "" THEN Rejected("text", "string_too_short")
    ELSE Accepted(body.text.val)

TextInput(body) ==
    IF body.json # "object" THEN Rejected("body", "model_attributes_type")
    ELSE IF "text" \notin body.keys THEN Rejected("text", "missing")
    ELSE IF body.text.type # "string" THEN Rejected("text", "string_type")
    ELSE Accepted(body.text.val)

(***************************************************************************)
(* State.                                                                  *)
(***************************************************************************)
VARIABLES
    phase,               \* "import", "loaded", "serving" or "crashed"
    sentiment_pipeline,  \* the module-level pipeline instance
    loads,               \* how many times pipeline(...) has built an instance
    loadFailed,          \* pipeline(...) raised during import
    routes,              \* routes registered on app
    metrics,             \* requests counted by the instrumentation middleware
    req                  \* the requests, by slot

vars == <<phase, sentiment_pipeline, loads, loadFailed, routes, metrics, req>>

\* A request no client has sent yet.
Idle ==
    [pc |-> "idle", route |-> Absent, body |-> NoBody, input_data |-> Absent,
     text |-> Absent, result |-> <<>>, calls |-> <<>>, response |-> NoResponse]

Init ==
    /\ phase = "import"
    /\ sentiment_pipeline = NoModel
    /\ loads = 0
    /\ loadFailed = FALSE
    /\ routes = {}
    /\ metrics = 0
    /\ req = [r \in Requests |-> Idle]

(***************************************************************************)
(* Start-up: the module body runs once, top to bottom, when it is imported.*)
(***************************************************************************)
\* sentiment_pipeline = pipeline(...) returns an instance.
LoadModel ==
    /\ phase = "import"
    /\ \E m \in Instances : sentiment_pipeline' = m
    /\ loads' = loads + 1
    /\ phase' = "loaded"
    /\ UNCHANGED <<loadFailed, routes, metrics, req>>

\* A start-up that catches the failure and goes on without a model.
LoadModelFailsSwallowed ==
    /\ phase = "import"
    /\ loadFailed' = TRUE
    /\ phase' = "loaded"
    /\ UNCHANGED <<sentiment_pipeline, loads, routes, metrics, req>>

\* pipeline(...) raises: the import fails and nothing below line 13 runs.
LoadModelFails ==
    /\ phase = "import"
    /\ loadFailed' = TRUE
    /\ phase' = "crashed"
    /\ UNCHANGED <<sentiment_pipeline, loads, routes, metrics, req>>

\* app = FastAPI(); Instrumentator().instrument(app).expose(app); the
\* decorators register the two handlers.
CreateApp ==
    /\ phase = "loaded"
    /\ routes' = {"GET /", "POST /predict", "GET /metrics"}
    /\ phase' = "serving"
    /\ UNCHANGED <<sentiment_pipeline, loads, loadFailed, metrics, req>>

(***************************************************************************)
(* Requests.                                                               *)
(***************************************************************************)
\* A client sends a request; slots are taken in order of arrival.  Requests
\* to GET /metrics are served by the instrumentation library alone and are
\* not modelled.
Receive(r, route, body) ==
    /\ phase = "serving"
    /\ route \in routes
    /\ req[r].pc = "idle"
    /\ \A q \in Requests : q < r => req[q].pc # "idle"
    /\ req' = [req EXCEPT ![r] = [Idle EXCEPT !.pc = "received", !.route = route, !.body = body]]
    /\ UNCHANGED <<phase, sentiment_pipeline, loads, loadFailed, routes, metrics>>

\* A health check that asks the model.
ReadRootCallsModel(r) ==
    /\ req[r].pc = "received"
    /\ req[r].route = "GET /"
    /\ req' = [req EXCEPT ![r].pc = "returned", ![r].calls = Append(@, ""),
                          ![r].response = RootPayload]
    /\ UNCHANGED <<phase, sentiment_pipeline, loads, loadFailed, routes, metrics>>

\* def read_root()
ReadRoot(r) ==
    /\ req[r].pc = "received"
    /\ req[r].route = "GET /"
    /\ req' = [req EXCEPT ![r].pc = "returned", ![r].response = RootPayload]
    /\ UNCHANGED <<phase, sentiment_pipeline, loads, loadFailed, routes, metrics>>

\* FastAPI builds input_data: TextInput from the body, or answers 422
\* without calling predict_sentiment.
Validate(r) ==
    /\ req[r].pc = "received"
    /\ req[r].route = "POST /predict"
    /\ LET v == TextInput(req[r].body) IN
         req' = [req EXCEPT ![r] =
                   IF v.ok
                   THEN [@ EXCEPT !.pc = "handler", !.input_data = v.text]
                   ELSE [@ EXCEPT !.pc = "returned", !.response = ValidationError(v.detail)]]
    /\ UNCHANGED <<phase, sentiment_pipeline, loads, loadFailed, routes, metrics>>

\* A handler that turns a failed model call into a 200 answer without a
\* usable prediction.
CallModelSwallows(r) ==
    /\ req[r].pc = "handler"
    /\ LET text == req[r].input_data
           out == Classify(sentiment_pipeline, text)
       IN req' = [req EXCEPT ![r] =
                    IF out.raised
                    THEN [@ EXCEPT !.pc = "returned", !.text = text,
                                   !.calls = Append(@, text),
                                   !.response = Envelope(text, <<NoElem>>)]
                    ELSE [@ EXCEPT !.pc = "called", !.text = text,
                                   !.calls = Append(@, text), !.result = out.value]]
    /\ UNCHANGED <<phase, sentiment_pipeline, loads, loadFailed, routes, metrics>>

\* A handler that builds the pipeline again on every request.
CallModelReloads(r) ==
    /\ req[r].pc = "handler"
    /\ \E m \in Instances :
         LET text == req[r].input_data
             out == Classify(m, text)
         IN /\ sentiment_pipeline' = m
            /\ req' = [req EXCEPT ![r] =
                    IF out.raised
                    THEN [@ EXCEPT !.pc = "returned", !.text = text,
                                   !.calls = Append(@, text),
                                   !.response = InternalServerError]
                    ELSE [@ EXCEPT !.pc = "called", !.text = text,
                                   !.calls = Append(@, text), !.result = out.value]]
    /\ loads' = loads + 1
    /\ UNCHANGED <<phase, loadFailed, routes, metrics>>

\* predict_sentiment, lines 42-45: text = input_data.text and
\* result = sentiment_pipeline(text).  An exception leaves the handler and
\* the request is answered 500.
CallModel(r) ==
    /\ req[r].pc = "handler"
    /\ LET text == req[r].input_data
           out == Classify(sentiment_pipeline, text)
       IN req' = [req EXCEPT ![r] =
                    IF out.raised
                    THEN [@ EXCEPT !.pc = "returned", !.text = text,
                                   !.calls = Append(@, text),
                                   !.response = InternalServerError]
                    ELSE [@ EXCEPT !.pc = "called", !.text = text,
                                   !.calls = Append(@, text), !.result = out.value]]
    /\ UNCHANGED <<phase, sentiment_pipeline, loads, loadFailed, routes, metrics>>

\* A handler whose text is a module-level name: it echoes the text of
\* whichever request in the handler bound the name last.
ReturnSharedText(r) ==
    /\ req[r].pc = "called"
    /\ \E q \in Requests :
         /\ req[q].pc \in {"called", "returned"}
         /\ req[q].text # Absent
         /\ req' = [req EXCEPT ![r].pc = "returned",
                               ![r].response =
                                   IF Len(req[r].result) = 0 THEN InternalServerError
                                   ELSE Envelope(req[q].text, req[r].result)]
    /\ UNCHANGED <<phase, sentiment_pipeline, loads, loadFailed, routes, metrics>>

\* predict_sentiment, lines 48-51: the return statement.  result[0] on an
\* empty list raises IndexError, which leaves the handler.
Return(r) ==
    /\ req[r].pc = "called"
    /\ req' = [req EXCEPT ![r].pc = "returned",
                          ![r].response =
                              IF Len(req[r].result) = 0 THEN InternalServerError
                              ELSE Envelope(req[r].text, req[r].result)]
    /\ UNCHANGED <<phase, sentiment_pipeline, loads, loadFailed, routes, metrics>>

\* The instrumentation middleware sees the response on its way out, counts
\* the request and passes the response on unchanged.
Instrument(r) ==
    /\ req[r].pc = "returned"
    /\ metrics' = metrics + 1
    /\ req' = [req EXCEPT ![r].pc = "done"]
    /\ UNCHANGED <<phase, sentiment_pipeline, loads, loadFailed, routes>>

Next ==
    \/ LoadModel
    \/ LoadModelFails
    \/ CreateApp
    \/ \E r \in Requests : Receive(r, "GET /", NoBody)
    \/ \E r \in Requests : \E body \in PredictBodies : Receive(r, "POST /predict", body)
    \/ \E r \in Requests : ReadRoot(r)
    \/ \E r \in Requests : Validate(r)
    \/ \E r \in Requests : CallModel(r)
    \/ \E r \in Requests : Return(r)
    \/ \E r \in Requests : Instrument(r)

Spec == Init /\ [][Next]_vars

\* predict_sentiment on a request that is handled with no other request in
\* flight: validation, the model call and the return statement in sequence.
PredictAlone(model, body) ==
    LET v == TextInput(body) IN
    IF ~v.ok THEN ValidationError(v.detail)
    ELSE LET out == Classify(model, v.text) IN
         IF out.raised \/ Len(out.value) = 0 THEN InternalServerError
         ELSE Envelope(v.text, out.value)

(***************************************************************************)
(* Properties.                                                             *)
(***************************************************************************)
Answered(r) == req[r].pc = "done"
HasResponse(r) == req[r].pc \in {"returned", "done"}
IsPredict(r) == req[r].route = "POST /predict"
IsRoot(r) == req[r].route = "GET /"
\* The body is a JSON object with a string "text".
ValidBody(body) == body.json = "object" /\ "text" \in body.keys /\ body.text.type = "string"
Submitted(r) == req[r].body.text.val
\* A dictionary with a label of the label set and a score in (0, 1).
IsPredictionResult(e) ==
    /\ {"label", "score"} \subseteq e.keys
    /\ e.label \in Labels
    /\ 0 < e.score /\ e.score < ScoreUnit
\* The state every request shares.
shared == <<phase, sentiment_pipeline, loads, loadFailed, routes>>

\* C1: the success response of a valid predict request carries input_text
\* equal to the submitted text, whatever else was or is being handled.
C1_EchoInvariant ==
    \A r \in Requests :
        (HasResponse(r) /\ IsPredict(r) /\ ValidBody(req[r].body) /\ req[r].response.status = 200)
            => /\ "input_text" \in req[r].response.keys
               /\ req[r].response.input_text = Submitted(r)

C1_Witness ==
    \E r, q \in Requests :
        /\ r # q
        /\ Answered(r) /\ IsPredict(r) /\ req[r].response.status = 200
        /\ Submitted(r) = "What a lovely day!"
        /\ IsPredict(q) /\ ValidBody(req[q].body) /\ Submitted(q) = ""
        /\ req[q].pc \in {"called", "returned", "done"}

\* C2: a predict request whose body has no text, or a text that is not a
\* string, never enters the handler, never reaches the model and is
\* answered 422.
C2_InvalidBodyRejected ==
    \A r \in Requests :
        (IsPredict(r) /\ ~ValidBody(req[r].body))
            => /\ req[r].pc \notin {"handler", "called"}
               /\ req[r].calls = <<>>
               /\ HasResponse(r) => req[r].response.status = 422

C2_Witness ==
    \E r, q \in Requests :
        /\ Answered(r) /\ IsPredict(r) /\ req[r].body.json = "object"
        /\ "text" \notin req[r].body.keys /\ req[r].response.status = 422
        /\ Answered(q) /\ IsPredict(q) /\ req[q].body.text.type = "number"
        /\ req[q].response.status = 422

\* C3: when the model call raises, the request is answered 500, the model
\* was called once for it, and the answer carries no input_text and no
\* prediction.
C3_ModelErrorIs500 ==
    \A r \in Requests :
        /\ Len(req[r].calls) <= 1
        /\ (HasResponse(r) /\ IsPredict(r) /\ ValidBody(req[r].body)
                /\ Classify(sentiment_pipeline, Submitted(r)).raised)
            => /\ req[r].response.status = 500
               /\ req[r].response.keys \cap {"input_text", "prediction"} = {}
               /\ req[r].calls = <<Submitted(r)>>

C3_Witness ==
    \E r, q \in Requests :
        /\ Answered(q) /\ IsPredict(q) /\ req[q].response.status = 200
        /\ Answered(r) /\ IsPredict(r) /\ ValidBody(req[r].body)
        /\ Classify(sentiment_pipeline, Submitted(r)).raised
        /\ req[r].response.status = 500

C6_EmptyTextReachesModel ==
    \A r \in Requests :
        (HasResponse(r) /\ IsPredict(r) /\ ValidBody(req[r].body) /\ Submitted(r) = "")
            => LET out == Classify(sentiment_pipeline, "") IN
               /\ req[r].response.status # 422
               /\ req[r].calls = <<"">>
               /\ (out.raised \/ Len(out.value) = 0) => req[r].response.status = 500
               /\ ~(out.raised \/ Len(out.value) = 0)
                    => /\ req[r].response.status = 200
                       /\ req[r].response.input_text = ""
                       /\ req[r].response.prediction = out.value[1]

C6_Witness ==
    \E r \in Requests :
        /\ Answered(r) /\ IsPredict(r) /\ ValidBody(req[r].body) /\ Submitted(r) = ""
        /\ req[r].calls = <<"">>
        /\ req[r].response.status = 200

\* C7: the pipeline is built once, before any request is received, and no
\* step taken while serving builds it again or rebinds it.
C7_LoadedOnce ==
    /\ [](/\ loads <= 1
          /\ (\E r \in Requests : req[r].pc # "idle")
                => loads = 1 /\ sentiment_pipeline.loaded)
    /\ [][phase = "serving"
            => sentiment_pipeline' = sentiment_pipeline /\ loads' = loads]_vars

C7_Witness ==
    /\ loads = 1
    /\ \A r \in Requests : Answered(r) /\ IsPredict(r) /\ Len(req[r].calls) = 1

\* C8: once loading has failed, no route is registered, no request is
\* received and no response is produced.
C8_NoServingAfterLoadFailure ==
    loadFailed
        => /\ routes = {}
           /\ phase # "serving"
           /\ metrics = 0
           /\ \A r \in Requests : req[r] = Idle

C8_Witness == loadFailed /\ phase = "crashed" /\ loads = 0

\* C9: a 200 answer to predict carries a prediction with a label and a
\* score, and a result that is empty or whose first element lacks them is
\* answered 500.
C9_ShapeAsserted ==
    \A r \in Requests :
        (HasResponse(r) /\ IsPredict(r) /\ ValidBody(req[r].body))
            => LET out == Classify(sentiment_pipeline, Submitted(r)) IN
               /\ req[r].response.status = 200
                    => {"label", "score"} \subseteq req[r].response.prediction.keys
               /\ (~out.raised /\ (Len(out.value) = 0
                                    \/ ~({"label", "score"} \subseteq out.value[1].keys)))
                    => req[r].response.status = 500

\* C10: under every interleaving a predict request gets the response it
\* gets when handled alone, a function of its body and the loaded model,
\* and no step of a handler changes the shared state or another request.
C10_RequestsIndependent ==
    /\ [](\A r \in Requests :
            (HasResponse(r) /\ IsPredict(r))
                => req[r].response = PredictAlone(sentiment_pipeline, req[r].body))
    /\ [][\A r \in Requests :
            (req[r].pc \in {"received", "handler", "called"} /\ req'[r] # req[r])
                => /\ shared' = shared
                   /\ metrics' = metrics
                   /\ \A q \in Requests \ {r} : req'[q] = req[q]]_vars

C10_Witness ==
    \E r, q \in Requests :
        /\ Answered(r) /\ IsPredict(r) /\ req[r].response.status = 200
        /\ req[r].response.input_text = "What a lovely day!"
        /\ req[q].pc = "called" /\ req[q].text = ""

====
